---- MODULE Spec2Model ----
(***************************************************************************)
(* kofj/caddy-cache, handler.go: the caching HTTP handler.                 *)
(*                                                                         *)
(* One request is served by up to three tasks: the orchestrator            *)
(* (ServeHTTP and, inside the store's GetOrSet callback,                   *)
(* HandleNonCachedResponse or HandleCachedResponse), the responder         *)
(* goroutine (pipe.handle() followed by the send on endChannel) and the    *)
(* drain or pump goroutine that ranges over pipe.BodyChannel().            *)
(* Channels are unbuffered: a send and its receive are one joint step.     *)
(*                                                                         *)
(* The store (Cache.GetOrSet, Cache.NewContent, the body sink), the        *)
(* splitter (PipeHandlerToChannels), getCacheableStatus and                *)
(* shouldUseCache are not part of handler.go; they are modelled from       *)
(* their documented interfaces.                                            *)
(***************************************************************************)
EXTENDS Naturals, Sequences, FiniteSets, TLC

(***************************************************************************)
(* Bounds of the model.                                                    *)
(***************************************************************************)
NumReqs == 2
MaxChunks == 2

Reqs == 1..NumReqs

(***************************************************************************)
(* Program constants.                                                      *)
(***************************************************************************)
StatusInternalServerError == 500
\* time.Duration(1) * time.Hour after now, in minutes from now
DefaultExpiration == 60

(***************************************************************************)
(* Values.                                                                 *)
(***************************************************************************)
\* the nil *HttpCacheEntry
NoEntry == [isNil |-> TRUE]
\* the nil StorageContent of a Response without a body
NoBody == 0
\* the nil error
NoError == "nil"

\* an http.Header with no key
EmptyHeader == [n \in {} |-> <<>>]

\* The configured names of the status header: none, a canonical one and a
\* lower-case one.
StatusHeaderChoices == {"", "X-Cache-Status", "x-cache-status"}

\* textproto.CanonicalMIMEHeaderKey, on the header names of this model
CanonicalHeaderKey(s) ==
    IF s = "x-cache-status" THEN "X-Cache-Status"
    ELSE IF s = "accept-encoding" THEN "Accept-Encoding"
    ELSE s

\* http.Header.Set: the canonical key gets the single value
HeaderSet(h, k, v) ==
    LET c == CanonicalHeaderKey(k)
    IN  [n \in (DOMAIN h) \cup {c} |-> IF n = c THEN <<v>> ELSE h[n]]

\* http.Header.Add: the value is appended to the canonical key's list
HeaderAdd(h, k, v) ==
    LET c == CanonicalHeaderKey(k)
    IN  [n \in (DOMAIN h) \cup {c} |->
            IF n = c
            THEN (IF c \in DOMAIN h THEN Append(h[c], v) ELSE <<v>>)
            ELSE h[n]]

\* the builtin delete(headers, k): the key as given, not canonicalised
HeaderDelete(h, k) == [n \in (DOMAIN h) \ {k} |-> h[n]]

\* the map index h[k]: <<>> is the nil slice of an absent key, <<list>> a
\* present one
HeaderIndex(h, k) == IF k \in DOMAIN h THEN <<h[k]>> ELSE <<>>

\* the keys of hs in one iteration order of the map
RECURSIVE SetToSeq(_)
SetToSeq(S) ==
    IF S = {} THEN <<>>
    ELSE LET x == CHOOSE y \in S : TRUE IN <<x>> \o SetToSeq(S \ {x})

(***************************************************************************)
(* strings.Split(s, ",") and strings.TrimSpace                             *)
(***************************************************************************)
RECURSIVE Split(_)
Split(s) ==
    IF \E i \in 1..Len(s) : SubSeq(s, i, i) = ","
    THEN LET i == CHOOSE k \in 1..Len(s) :
                     /\ SubSeq(s, k, k) = ","
                     /\ \A j \in 1..(k - 1) : SubSeq(s, j, j) # ","
         IN  <<SubSeq(s, 1, i - 1)>> \o Split(SubSeq(s, i + 1, Len(s)))
    ELSE <<s>>

IsSpace(c) == c = " "

RECURSIVE TrimSpace(_)
TrimSpace(s) ==
    IF Len(s) = 0 THEN s
    ELSE IF IsSpace(SubSeq(s, 1, 1)) THEN TrimSpace(SubSeq(s, 2, Len(s)))
    ELSE IF IsSpace(SubSeq(s, Len(s), Len(s)))
         THEN TrimSpace(SubSeq(s, 1, Len(s) - 1))
    ELSE s

(***************************************************************************)
(* getKey                                                                  *)
(***************************************************************************)
\* the parameter names of this model, in the sorted order of Encode
QueryKeys == <<"a", "b">>

\* r.URL.Query(): the parameters of the raw query q, a sequence of
\* <<name, value>>, grouped by name, the values of a name in their order
RECURSIVE QueryValues(_, _)
QueryValues(q, ks) ==
    IF ks = <<>> THEN <<>>
    ELSE SelectSeq(q, LAMBDA p : p[1] = Head(ks)) \o QueryValues(q, Tail(ks))

RECURSIVE JoinPairs(_)
JoinPairs(ps) ==
    IF ps = <<>> THEN ""
    ELSE ps[1][1] \o "=" \o ps[1][2]
           \o (IF Len(ps) > 1 THEN "&" \o JoinPairs(Tail(ps)) ELSE "")

\* url.Values.Encode: "a=1&b=2", sorted by name, or ""
QueryEncode(q) == JoinPairs(QueryValues(q, QueryKeys))

\* a key that tells requests apart by their Accept-Encoding header
getKeyWithHeader(r) ==
    LET key == r.Method \o " " \o r.Host \o r.Path
        q   == QueryEncode(r.Query)
        enc == IF "Accept-Encoding" \in DOMAIN r.Header THEN "+enc" ELSE ""
    IN  (IF Len(q) > 0 THEN key \o "?" \o q ELSE key) \o enc

\* lines 22-31
getKey(r) ==
    LET key == r.Method \o " " \o r.Host \o r.Path
        q   == QueryEncode(r.Query)
    IN  IF Len(q) > 0 THEN key \o "?" \o q ELSE key

(***************************************************************************)
(* matchesRequest                                                          *)
(***************************************************************************)
matchesRequest(r, entry) ==
    LET vary == HeaderIndex(entry.Response.HeaderMap, "Vary")
    IN  IF vary = <<>> THEN TRUE
        ELSE LET names == Split(vary[1][1])
             IN  \A i \in 1..Len(names) :
                    LET searchedHeader == TrimSpace(names[i])
                    IN  HeaderIndex(entry.Request.HeaderMap, searchedHeader)
                          = HeaderIndex(r.Header, searchedHeader)

\* line 46: vary[0] of a Vary key that is present with an empty list is an
\* index out of range, the matcher panics
matchesRequestPanics(entry) ==
    LET vary == HeaderIndex(entry.Response.HeaderMap, "Vary")
    IN  IF vary = <<>> THEN FALSE ELSE Len(vary[1]) = 0

(***************************************************************************)
(* AddStatusHeaderIfConfigured, RemoveStatusHeaderIfConfigured             *)
(***************************************************************************)
AddStatusHeaderIfConfigured(statusHeader, wHeader, status) ==
    IF statusHeader # "" THEN HeaderSet(wHeader, statusHeader, status)
    ELSE wHeader

RemoveStatusHeaderIfConfigured(statusHeader, headers) ==
    IF statusHeader # "" THEN HeaderDelete(headers, statusHeader)
    ELSE headers

(***************************************************************************)
(* The inputs: requests, downstream responses, policy results.             *)
(***************************************************************************)
RequestChoices ==
    { [Method |-> "GET", Host |-> "h", Path |-> "/a", Query |-> <<>>,
       Header |-> EmptyHeader],
      [Method |-> "GET", Host |-> "h", Path |-> "/a", Query |-> <<>>,
       Header |-> [n \in {"Accept-Encoding"} |-> <<"gzip">>]],
      [Method |-> "POST", Host |-> "h", Path |-> "/a", Query |-> <<>>,
       Header |-> EmptyHeader] }

Keys == { getKey(r) : r \in RequestChoices }

\* what the downstream responder commits before its body: the status code
\* and the headers it sets on the response
DownstreamChoices ==
    { [Code |-> 200, Header |-> [n \in {"Vary", "Set-Cookie"} |->
                                   IF n = "Vary" THEN <<"Accept-Encoding">>
                                   ELSE <<"a", "b">>]],
      [Code |-> 404, Header |-> [n \in {"Content-Type"} |-> <<"text/plain">>]] }

\* what the downstream responder returns: (0, nil) after a written response,
\* or a status code and an error
HandlerReturns ==
    { [code |-> 0, err |-> NoError], [code |-> 502, err |-> "downstream error"] }

\* getCacheableStatus: (isCacheable, expirationTime, err), the expiration in
\* minutes from now
PolicyChoices ==
    { [isCacheable |-> TRUE, expirationTime |-> 10, err |-> NoError],
      [isCacheable |-> FALSE, expirationTime |-> 0, err |-> NoError],
      [isCacheable |-> FALSE, expirationTime |-> 0, err |-> "policy error"] }

\* Cache.NewContent: a sink, or an error
SinkChoices == {NoError, "sink error"}

\* the i-th body chunk the downstream responder writes for request r
Chunk(r, i) == <<r, i>>

\* the eligibility predicate
shouldUseCache(r) == r.Method = "GET"

(***************************************************************************)
(* The state.                                                              *)
(***************************************************************************)
VARIABLES
    StatusHeader,       \* handler.Config.StatusHeader
    req,                \* req[r]: the request r
    pc,                 \* pc[r]: where ServeHTTP is for request r
    rt,                 \* rt[r]: the goroutine of pipe.handle() and endChannel
    pt,                 \* pt[r]: the drain or pump goroutine
    store,              \* store[k]: the entries the cache holds for key k
    lock,               \* lock[k]: the request whose callback GetOrSet runs
    previous,           \* previous[r]: the entry GetOrSet gave the callback
    path,               \* path[r]: "miss" (line 170) or "hit" (line 180)
    headers,            \* headers[r]: what <-pipe.HeaderChannel() gave
    policy,             \* policy[r]: what getCacheableStatus returned
    newEntry,           \* newEntry[r]: what the callback returned to the store
    endChannel,         \* endChannel[r]: ServeHTTP's endChannel is not nil
    returnedStatusCode, \* returnedStatusCode[r], of ServeHTTP
    ret,                \* ret[r]: what ServeHTTP returned
    w,                  \* w[r]: what the client of r was sent
    produced,           \* produced[r]: the chunks the responder wrote
    bodyClosed,         \* bodyClosed[r]: pipe.BodyChannel() is closed
    content,            \* content[r]: the chunk the pump holds
    sink,               \* sink[r]: the content NewContent opened for r
    reader,             \* reader[r]: the GetReader call of a hit
    handled,            \* handled[r]: what the downstream responder returned
    invoked,            \* invoked[r]: the calls of the downstream responder
    call                \* the call of getKey or of a matcher under check

vars == <<StatusHeader, req, pc, rt, pt, store, lock, previous, path, headers,
          policy, newEntry, endChannel, returnedStatusCode, ret, w, produced,
          bodyClosed, content, sink, reader, handled, invoked, call>>

NoHeaders == [isNil |-> TRUE]
NoPolicy == [isNil |-> TRUE]
NoReturn == [isNil |-> TRUE]
NoReader == [isNil |-> TRUE]
NoCall == [isNil |-> TRUE]

\* no request has been served yet
Idle ==
    /\ pc = [r \in Reqs |-> "start"]
    /\ rt = [r \in Reqs |-> "none"]
    /\ pt = [r \in Reqs |-> "none"]
    /\ store = [k \in Keys |-> {}]
    /\ lock = [k \in Keys |-> 0]
    /\ previous = [r \in Reqs |-> NoEntry]
    /\ path = [r \in Reqs |-> "none"]
    /\ headers = [r \in Reqs |-> NoHeaders]
    /\ policy = [r \in Reqs |-> NoPolicy]
    /\ newEntry = [r \in Reqs |-> NoEntry]
    /\ endChannel = [r \in Reqs |-> FALSE]
    /\ returnedStatusCode = [r \in Reqs |-> StatusInternalServerError]
    /\ ret = [r \in Reqs |-> NoReturn]
    /\ w = [r \in Reqs |-> [Header |-> EmptyHeader, Code |-> 0, Body |-> <<>>]]
    /\ produced = [r \in Reqs |-> <<>>]
    /\ bodyClosed = [r \in Reqs |-> FALSE]
    /\ content = [r \in Reqs |-> <<>>]
    /\ sink = [r \in Reqs |-> [opened |-> 0, err |-> NoError, data |-> <<>>,
                               closes |-> 0, lateWrites |-> 0]]
    /\ reader = [r \in Reqs |-> NoReader]
    /\ handled = [r \in Reqs |-> NoReturn]
    /\ invoked = [r \in Reqs |-> 0]

Init ==
    /\ StatusHeader \in StatusHeaderChoices
    /\ req \in [Reqs -> RequestChoices]
    /\ call = NoCall
    /\ Idle

(***************************************************************************)
(* The store's GetOrSet, from its interface: under the key's lock it gives *)
(* the callback an entry of the key that the matcher accepts, or none, and *)
(* puts the entry the callback returns in that entry's place.              *)
(***************************************************************************)
Previous(k, r) ==
    LET matching == { e \in store[k] : matchesRequest(req[r], e) }
    IN  IF matching = {} THEN {NoEntry} ELSE matching

StorePut(k, prev, entry) ==
    IF entry = NoEntry THEN store
    ELSE [store EXCEPT ![k] = (@ \ {prev}) \cup {entry}]

\* a callback that takes the miss path only when there is no previous entry
TakesMissPathOnlyOnNil(prev) == prev = NoEntry

\* line 168: the callback's choice of the miss path
TakesMissPath(prev) == IF prev = NoEntry THEN TRUE ELSE ~prev.isPublic

\* a callback that hands the store the replayed entry with a fresh expiration
HitReturnRefreshed(prev) == [prev EXCEPT !.Expiration = DefaultExpiration]

\* line 181: what the callback returns to the store after a hit
HitReturn(prev) == NoEntry

(***************************************************************************)
(* HandleCachedResponse                                                    *)
(***************************************************************************)
\* lines 76-78: w.Header().Add(k, v) for every v of values
RECURSIVE AddValues(_, _, _)
AddValues(h, k, values) ==
    IF values = <<>> THEN h
    ELSE AddValues(HeaderAdd(h, k, Head(values)), k, Tail(values))

\* lines 75-79: every key of the stored header map
RECURSIVE ReplayHeaders(_, _, _)
ReplayHeaders(h, headerMap, ks) ==
    IF ks = <<>> THEN h
    ELSE ReplayHeaders(AddValues(h, Head(ks), headerMap[Head(ks)]),
                       headerMap, Tail(ks))

\* lines 81-83: io.Copy of a fresh reader reads what the content holds
CopyBody(body) == IF body # NoBody THEN sink[body].data ELSE <<>>

\* lines 179 and 73-85: what the client has been sent when the hit returns
HandleCachedResponse(wr, prev) ==
    LET marked == AddStatusHeaderIfConfigured(StatusHeader,
                      AddStatusHeaderIfConfigured(StatusHeader, wr.Header, "hit"),
                      "hit")
        hm     == prev.Response.HeaderMap
    IN  [Header |-> ReplayHeaders(marked, hm, SetToSeq(DOMAIN hm)),
         Code   |-> prev.Response.Code,
         Body   |-> wr.Body \o CopyBody(prev.Response.Body)]

(***************************************************************************)
(* HandleNonCachedResponse, after the header event: what it returns        *)
(* (entry, err), whether it calls NewContent, and the goroutine it starts. *)
(***************************************************************************)
\* a NewContent call made before the cacheable check of line 117
CallsNewContentUnchecked(pol) == pol.err = NoError

\* line 132 is reached: the policy gave no error and said cacheable
CallsNewContent(pol) == pol.err = NoError /\ pol.isCacheable

\* a not cacheable entry marked public
PrivateEntryMarkedPublic(r, hdrs) ==
    [isPublic   |-> TRUE,
     Expiration |-> DefaultExpiration,
     Request    |-> [HeaderMap |-> req[r].Header],
     Response   |-> [HeaderMap |-> RemoveStatusHeaderIfConfigured(StatusHeader,
                                                                  hdrs.Header),
                     Body      |-> NoBody,
                     Code      |-> hdrs.StatusCode]]

\* lines 117-129: the entry of a response that is not cacheable
PrivateEntry(r, hdrs) ==
    [isPublic   |-> FALSE,
     Expiration |-> DefaultExpiration,
     Request    |-> [HeaderMap |-> req[r].Header],
     Response   |-> [HeaderMap |-> RemoveStatusHeaderIfConfigured(StatusHeader,
                                                                  hdrs.Header),
                     Body      |-> NoBody,
                     Code      |-> hdrs.StatusCode]]

\* a cacheable entry without line 141: it stays private
PublicEntryLeftPrivate(r, hdrs, pol) ==
    [isPublic   |-> FALSE,
     Expiration |-> pol.expirationTime,
     Request    |-> [HeaderMap |-> req[r].Header],
     Response   |-> [HeaderMap |-> RemoveStatusHeaderIfConfigured(StatusHeader,
                                                                  hdrs.Header),
                     Body      |-> r,
                     Code      |-> hdrs.StatusCode]]

\* a cacheable entry without line 140: it keeps the default expiration
PublicEntryDefaultExpiration(r, hdrs, pol) ==
    [isPublic   |-> TRUE,
     Expiration |-> DefaultExpiration,
     Request    |-> [HeaderMap |-> req[r].Header],
     Response   |-> [HeaderMap |-> RemoveStatusHeaderIfConfigured(StatusHeader,
                                                                  hdrs.Header),
                     Body      |-> r,
                     Code      |-> hdrs.StatusCode]]

\* lines 139-146: the entry of a cacheable response, its body the new content
PublicEntry(r, hdrs, pol) ==
    [isPublic   |-> TRUE,
     Expiration |-> pol.expirationTime,
     Request    |-> [HeaderMap |-> req[r].Header],
     Response   |-> [HeaderMap |-> RemoveStatusHeaderIfConfigured(StatusHeader,
                                                                  hdrs.Header),
                     Body      |-> r,
                     Code      |-> hdrs.StatusCode]]

\* a miss path without lines 112-115: a policy error is taken as "not
\* cacheable"
HandleNonCachedResponseIgnoresPolicyError(r, hdrs, pol, sinkErr) ==
    IF ~pol.isCacheable
    THEN [entry |-> PrivateEntry(r, hdrs), err |-> NoError, task |-> "drain"]
    ELSE IF sinkErr # NoError
    THEN [entry |-> NoEntry, err |-> sinkErr, task |-> "none"]
    ELSE [entry |-> PublicEntry(r, hdrs, pol), err |-> NoError, task |-> "recv"]

\* lines 110-156
HandleNonCachedResponse(r, hdrs, pol, sinkErr) ==
    IF pol.err # NoError
    THEN [entry |-> NoEntry, err |-> pol.err, task |-> "none"]
    ELSE IF ~pol.isCacheable
    THEN [entry |-> PrivateEntry(r, hdrs), err |-> NoError, task |-> "drain"]
    ELSE IF sinkErr # NoError
    THEN [entry |-> NoEntry, err |-> sinkErr, task |-> "none"]
    ELSE [entry |-> PublicEntry(r, hdrs, pol), err |-> NoError, task |-> "recv"]

\* a write that puts the chunk in front
SinkWriteInFront(data, chunk) == <<chunk>> \o data

\* line 151: bodyWriter.Write(content)
SinkWrite(data, chunk) == Append(data, chunk)

\* the headers the downstream responder sets, on top of those of the writer
CommitHeaders(h, d) ==
    [n \in (DOMAIN h) \cup (DOMAIN d) |-> IF n \in DOMAIN d THEN d[n] ELSE h[n]]

(***************************************************************************)
(* ServeHTTP                                                               *)
(***************************************************************************)
\* a skip path that returns the downstream's status code without its error
SkipReturnDropsError(h) == [code |-> h.code, err |-> NoError]

\* line 162: the skip path returns what the downstream responder returned
SkipReturn(h) == h

\* a ServeHTTP that never waits on endChannel
NeverWaitsOnEndChannel(endChn) == FALSE

\* line 184: ServeHTTP waits on endChannel when the callback has set it
WaitsOnEndChannel(endChn) == endChn

\* a responder goroutine that sends on endChannel before pipe.handle() returns
SendsCompletionEarly(state) == state \in {"body", "end"}

\* a responder goroutine without line 104
SendsCompletionNever(state) == FALSE

\* lines 102-104: the responder goroutine sends on endChannel once
\* pipe.handle() has returned
SendsCompletion(state) == state = "end"

\* a miss path that reports the error of the downstream responder
HandleErrorReported(h) == h.err

\* line 102: what pipe.handle() ends with is dropped, the err of line 192
\* is nil when ServeHTTP returns after the wait on endChannel
HandleError(h) == NoError

\* lines 160-163: an ineligible request goes to the downstream responder
Skip(r) ==
    /\ pc[r] = "start"
    /\ ~shouldUseCache(req[r])
    /\ \E d \in DownstreamChoices, n \in 0..MaxChunks, h \in HandlerReturns :
        LET marked == AddStatusHeaderIfConfigured(StatusHeader, w[r].Header,
                                                  "skip")
            body   == [i \in 1..n |-> Chunk(r, i)]
        IN  /\ w' = [w EXCEPT ![r] = [Header |-> CommitHeaders(marked, d.Header),
                                      Code   |-> d.Code,
                                      Body   |-> body]]
            /\ produced' = [produced EXCEPT ![r] = body]
            /\ handled' = [handled EXCEPT ![r] = h]
            /\ ret' = [ret EXCEPT ![r] = SkipReturn(h)]
    /\ invoked' = [invoked EXCEPT ![r] = @ + 1]
    /\ path' = [path EXCEPT ![r] = "skip"]
    /\ pc' = [pc EXCEPT ![r] = "done"]
    /\ UNCHANGED <<call, StatusHeader, req, rt, pt, store, lock, previous, headers,
                   policy, newEntry, endChannel, returnedStatusCode,
                   bodyClosed, content, sink, reader>>

\* line 167: GetOrSet takes the key's lock and runs the callback, which on
\* no previous entry or a private one enters HandleNonCachedResponse
\* (lines 88-105): the miss mark, and the goroutine of pipe.handle()
MissStart(r) ==
    /\ pc[r] = "start"
    /\ shouldUseCache(req[r])
    /\ lock[getKey(req[r])] = 0
    /\ \E prev \in Previous(getKey(req[r]), r) :
        /\ TakesMissPath(prev)
        /\ previous' = [previous EXCEPT ![r] = prev]
    /\ lock' = [lock EXCEPT ![getKey(req[r])] = r]
    /\ path' = [path EXCEPT ![r] = "miss"]
    /\ w' = [w EXCEPT ![r].Header =
                AddStatusHeaderIfConfigured(StatusHeader, @, "miss")]
    /\ rt' = [rt EXCEPT ![r] = "handle"]
    /\ invoked' = [invoked EXCEPT ![r] = @ + 1]
    /\ pc' = [pc EXCEPT ![r] = "waitHeaders"]
    /\ UNCHANGED <<call, StatusHeader, req, pt, store, headers, policy, newEntry,
                   endChannel, returnedStatusCode, ret, produced, bodyClosed,
                   content, sink, reader, handled>>

\* line 167 and lines 179-181: GetOrSet runs the callback on a public
\* previous entry, which replays it; ServeHTTP returns (lines 184-192)
Hit(r) ==
    /\ pc[r] = "start"
    /\ shouldUseCache(req[r])
    /\ lock[getKey(req[r])] = 0
    /\ \E prev \in Previous(getKey(req[r]), r) :
        /\ ~TakesMissPath(prev)
        /\ previous' = [previous EXCEPT ![r] = prev]
        /\ w' = [w EXCEPT ![r] = HandleCachedResponse(w[r], prev)]
        /\ reader' = [reader EXCEPT ![r] =
                        IF prev.Response.Body # NoBody
                        THEN [of |-> prev.Response.Body,
                              closed |-> sink[prev.Response.Body].closes > 0]
                        ELSE NoReader]
        /\ returnedStatusCode' =
               [returnedStatusCode EXCEPT ![r] = prev.Response.Code]
        /\ ret' = [ret EXCEPT ![r] =
                      [code |-> prev.Response.Code, err |-> NoError]]
        /\ newEntry' = [newEntry EXCEPT ![r] = HitReturn(prev)]
        /\ store' = StorePut(getKey(req[r]), prev, HitReturn(prev))
    /\ path' = [path EXCEPT ![r] = "hit"]
    /\ pc' = [pc EXCEPT ![r] = "done"]
    /\ UNCHANGED <<call, invoked, StatusHeader, req, rt, pt, lock, headers, policy,
                   endChannel, produced, bodyClosed, content, sink, handled>>

\* The responder commits its status code and headers, and the splitter
\* sends the header event, which line 108 receives.
HeaderEvent(r) ==
    /\ rt[r] = "handle"
    /\ pc[r] = "waitHeaders"
    /\ \E d \in DownstreamChoices :
        /\ w' = [w EXCEPT ![r].Header = CommitHeaders(@, d.Header),
                          ![r].Code = d.Code]
        /\ headers' = [headers EXCEPT ![r] =
                         [StatusCode |-> d.Code,
                          Header     |-> CommitHeaders(w[r].Header, d.Header)]]
    /\ rt' = [rt EXCEPT ![r] = "body"]
    /\ pc' = [pc EXCEPT ![r] = "policy"]
    /\ UNCHANGED <<call, invoked, StatusHeader, req, pt, store, lock, previous, path, policy,
                   newEntry, endChannel, returnedStatusCode, ret, produced,
                   bodyClosed, content, sink, reader, handled>>

\* lines 110-156, then lines 171-176 of the callback and the end of
\* GetOrSet: the store takes the returned entry and frees the key; on an
\* error ServeHTTP returns at once (lines 184-192), otherwise it goes on to
\* wait on endChannel
Decide(r) ==
    /\ pc[r] = "policy"
    /\ \E pol \in PolicyChoices :
       \E sinkErr \in (IF CallsNewContent(pol) THEN SinkChoices ELSE {NoError}) :
        LET res == HandleNonCachedResponse(r, headers[r], pol, sinkErr)
            k   == getKey(req[r])
        IN  /\ policy' = [policy EXCEPT ![r] = pol]
            /\ sink' = [sink EXCEPT ![r].opened =
                                        IF CallsNewContent(pol) THEN @ + 1 ELSE @,
                                    ![r].err = sinkErr]
            /\ pt' = [pt EXCEPT ![r] = res.task]
            /\ newEntry' = [newEntry EXCEPT ![r] = res.entry]
            \* lines 121 and 143 delete from the map *headers.Header itself
            /\ headers' = [headers EXCEPT ![r].Header =
                             IF res.entry = NoEntry THEN @
                             ELSE res.entry.Response.HeaderMap]
            /\ store' = StorePut(k, previous[r], res.entry)
            /\ lock' = [lock EXCEPT ![k] = 0]
            \* lines 171-176: endChannel and returnedStatusCode are set
            \* unless HandleNonCachedResponse gave an error
            /\ endChannel' = [endChannel EXCEPT ![r] = res.err = NoError]
            /\ returnedStatusCode' =
                   [returnedStatusCode EXCEPT ![r] =
                       IF res.err = NoError THEN res.entry.Response.Code
                       ELSE @]
            \* lines 184-192
            /\ IF WaitsOnEndChannel(res.err = NoError)
               THEN /\ pc' = [pc EXCEPT ![r] = "waitEnd"]
                    /\ UNCHANGED ret
               ELSE /\ ret' = [ret EXCEPT ![r] =
                                 [code |-> returnedStatusCode'[r],
                                  err  |-> res.err]]
                    /\ pc' = [pc EXCEPT ![r] = "done"]
    /\ UNCHANGED <<call, invoked, StatusHeader, req, rt, previous, path, w, produced,
                   bodyClosed, content, reader, handled>>

\* lines 184-192: ServeHTTP receives from endChannel what line 104 sends,
\* and returns
EndReceive(r) ==
    /\ pc[r] = "waitEnd"
    /\ endChannel[r]
    /\ SendsCompletion(rt[r])
    /\ rt' = [rt EXCEPT ![r] = "done"]
    /\ ret' = [ret EXCEPT ![r] =
                  [code |-> returnedStatusCode[r],
                   err  |-> HandleError(handled[r])]]
    /\ pc' = [pc EXCEPT ![r] = "done"]
    /\ UNCHANGED <<call, invoked, StatusHeader, req, pt, store, lock, previous, path, headers,
                   policy, newEntry, endChannel, returnedStatusCode, w,
                   produced, bodyClosed, content, sink, reader, handled>>

(***************************************************************************)
(* The goroutine of lines 100-105: pipe.handle(), the downstream responder *)
(* writing through the splitter.                                           *)
(***************************************************************************)
\* the responder writes a chunk: the client gets it, and the splitter
\* starts to send it on the body channel
RespWrite(r) ==
    /\ rt[r] = "body"
    /\ Len(produced[r]) < MaxChunks
    /\ produced' = [produced EXCEPT ![r] = Append(@, Chunk(r, Len(@) + 1))]
    /\ w' = [w EXCEPT ![r].Body = Append(@, Chunk(r, Len(produced[r]) + 1))]
    /\ rt' = [rt EXCEPT ![r] = "send"]
    /\ UNCHANGED <<call, invoked, StatusHeader, req, pc, pt, store, lock, previous, path,
                   headers, policy, newEntry, endChannel, returnedStatusCode,
                   ret, bodyClosed, content, sink, reader, handled>>

\* the responder returns, with or without an error: the body channel is
\* closed, pipe.handle() returns and line 104 starts to send on endChannel
RespReturn(r) ==
    /\ rt[r] = "body"
    /\ \E h \in HandlerReturns : handled' = [handled EXCEPT ![r] = h]
    /\ bodyClosed' = [bodyClosed EXCEPT ![r] = TRUE]
    /\ rt' = [rt EXCEPT ![r] = "end"]
    /\ UNCHANGED <<call, invoked, StatusHeader, req, pc, pt, store, lock, previous, path,
                   headers, policy, newEntry, endChannel, returnedStatusCode,
                   ret, w, produced, content, sink, reader>>

(***************************************************************************)
(* The goroutine of lines 124-127 (drain) or of lines 149-154 (pump).      *)
(***************************************************************************)
\* line 125: the drain loop receives a chunk and drops it
DrainReceive(r) ==
    /\ pt[r] = "drain"
    /\ rt[r] = "send"
    /\ rt' = [rt EXCEPT ![r] = "body"]
    /\ UNCHANGED <<call, invoked, StatusHeader, req, pc, pt, store, lock, previous, path,
                   headers, policy, newEntry, endChannel, returnedStatusCode,
                   ret, w, produced, bodyClosed, content, sink, reader,
                   handled>>

\* line 125: the body channel is closed, the drain loop ends
DrainEnd(r) ==
    /\ pt[r] = "drain"
    /\ bodyClosed[r]
    /\ pt' = [pt EXCEPT ![r] = "done"]
    /\ UNCHANGED <<call, invoked, StatusHeader, req, pc, rt, store, lock, previous, path,
                   headers, policy, newEntry, endChannel, returnedStatusCode,
                   ret, w, produced, bodyClosed, content, sink, reader,
                   handled>>

\* line 150: the pump loop receives a chunk
PumpReceive(r) ==
    /\ pt[r] = "recv"
    /\ rt[r] = "send"
    /\ content' = [content EXCEPT ![r] = produced[r][Len(produced[r])]]
    /\ rt' = [rt EXCEPT ![r] = "body"]
    /\ pt' = [pt EXCEPT ![r] = "write"]
    /\ UNCHANGED <<call, invoked, StatusHeader, req, pc, store, lock, previous, path,
                   headers, policy, newEntry, endChannel, returnedStatusCode,
                   ret, w, produced, bodyClosed, sink, reader, handled>>

\* line 151: bodyWriter.Write(content)
PumpWrite(r) ==
    /\ pt[r] = "write"
    /\ sink' = [sink EXCEPT ![r].data = SinkWrite(@, content[r]),
                            ![r].lateWrites =
                                IF sink[r].closes > 0 THEN @ + 1 ELSE @]
    /\ pt' = [pt EXCEPT ![r] = "recv"]
    /\ UNCHANGED <<call, invoked, StatusHeader, req, pc, rt, store, lock, previous, path,
                   headers, policy, newEntry, endChannel, returnedStatusCode,
                   ret, w, produced, bodyClosed, content, reader, handled>>

\* lines 150 and 153: the body channel is closed, the loop ends and the
\* pump closes the content
PumpClose(r) ==
    /\ pt[r] = "recv"
    /\ bodyClosed[r]
    /\ sink' = [sink EXCEPT ![r].closes = @ + 1]
    /\ pt' = [pt EXCEPT ![r] = "done"]
    /\ UNCHANGED <<call, invoked, StatusHeader, req, pc, rt, store, lock, previous, path,
                   headers, policy, newEntry, endChannel, returnedStatusCode,
                   ret, w, produced, bodyClosed, content, reader, handled>>

Next ==
    \E r \in Reqs :
        \/ Skip(r)
        \/ MissStart(r)
        \/ Hit(r)
        \/ HeaderEvent(r)
        \/ Decide(r)
        \/ EndReceive(r)
        \/ RespWrite(r)
        \/ RespReturn(r)
        \/ DrainReceive(r)
        \/ DrainEnd(r)
        \/ PumpReceive(r)
        \/ PumpWrite(r)
        \/ PumpClose(r)

Spec == Init /\ [][Next]_vars

(***************************************************************************)
(* The same program under a fair scheduler: the store runs the callback of *)
(* a waiting GetOrSet call when the key is free, ServeHTTP goes on when it *)
(* can, and so does every goroutine; a responder that can only return      *)
(* (the downstream always returns) does return.                            *)
(***************************************************************************)
\* ServeHTTP and the callback it gives to GetOrSet, lines 159-192
Orchestrator(r) ==
    \/ Skip(r)
    \/ MissStart(r)
    \/ Hit(r)
    \/ HeaderEvent(r)
    \/ Decide(r)
    \/ EndReceive(r)

\* the goroutine of lines 100-105, up to its send on endChannel
Responder(r) == RespWrite(r) \/ RespReturn(r)

\* the goroutine of lines 124-127 or of lines 149-154
BodyReceiver(r) ==
    \/ DrainReceive(r)
    \/ DrainEnd(r)
    \/ PumpReceive(r)
    \/ PumpWrite(r)
    \/ PumpClose(r)

\* the name of the status header has no part in any wait: one name is taken
FairInit ==
    /\ StatusHeader = "X-Cache-Status"
    /\ req \in [Reqs -> RequestChoices]
    /\ call = NoCall
    /\ Idle

FairSpec ==
    /\ FairInit
    /\ [][Next]_vars
    /\ \A r \in Reqs :
          /\ WF_vars(Orchestrator(r))
          /\ WF_vars(Responder(r))
          /\ WF_vars(BodyReceiver(r))

(***************************************************************************)
(* getKey on its own: one call on each of two requests drawn from the set  *)
(* below.                                                                  *)
(***************************************************************************)
KeyRequestChoices ==
    [ Method : {"GET", "POST"},
      Host   : {"h", "g"},
      Path   : {"/a", "/b"},
      Query  : { <<>>, << <<"a", "1">> >>,
                 << <<"a", "1">>, <<"b", "2">> >>,
                 << <<"b", "2">>, <<"a", "1">> >> },
      Header : { EmptyHeader, [n \in {"Accept-Encoding"} |-> <<"gzip">>] } ]

InitKey ==
    /\ StatusHeader = ""
    /\ req \in [Reqs -> {[Method |-> "GET", Host |-> "h", Path |-> "/a",
                          Query |-> <<>>, Header |-> EmptyHeader]}]
    /\ call \in { [fn |-> "getKey", r |-> r, q |-> q, out |-> <<>>] :
                  r \in KeyRequestChoices, q \in KeyRequestChoices }
    /\ Idle

\* lines 22-31: getKey(r) and getKey(q)
KeyCall ==
    /\ call.out = <<>>
    /\ call' = [call EXCEPT !.out = <<getKey(call.r), getKey(call.q)>>]
    /\ UNCHANGED <<StatusHeader, req, pc, rt, pt, store, lock, previous, path,
                   headers, policy, newEntry, endChannel, returnedStatusCode,
                   ret, w, produced, bodyClosed, content, sink, reader,
                   handled, invoked>>

NextKey == KeyCall

SpecKey == InitKey /\ [][NextKey]_vars

(***************************************************************************)
(* The matcher on its own: one call of the function that matchesRequest(r) *)
(* returns, on a stored entry and a request drawn from the sets below.     *)
(***************************************************************************)
\* header maps of a request: no header, Accept-Encoding with one value, with
\* two values in either order, with an empty list, Cookie, and both
MatchHeaderChoices ==
    { EmptyHeader,
      [n \in {"Accept-Encoding"} |-> <<"gzip">>],
      [n \in {"Accept-Encoding"} |-> <<"gzip", "br">>],
      [n \in {"Accept-Encoding"} |-> <<"br", "gzip">>],
      [n \in {"Accept-Encoding"} |-> <<>>],
      [n \in {"Cookie"} |-> <<"a">>],
      [n \in {"Accept-Encoding", "Cookie"} |->
          IF n = "Cookie" THEN <<"a">> ELSE <<"gzip">>] }

\* header maps of a stored response: no Vary, one Vary value of one name,
\* one value of two names, two values of one name each, and an empty list
MatchVaryChoices ==
    { EmptyHeader,
      [n \in {"Vary"} |-> <<"Accept-Encoding">>],
      [n \in {"Vary"} |-> <<"Accept-Encoding, Cookie">>],
      [n \in {"Vary"} |-> <<"Accept-Encoding", "Cookie">>],
      [n \in {"Vary"} |-> <<>>] }

InitMatch ==
    /\ StatusHeader = ""
    /\ req \in [Reqs -> {[Method |-> "GET", Host |-> "h", Path |-> "/a",
                          Query |-> <<>>, Header |-> EmptyHeader]}]
    /\ call \in { [fn    |-> "matchesRequest",
                   r     |-> [Header |-> h],
                   entry |-> [Request  |-> [HeaderMap |-> s],
                              Response |-> [HeaderMap |-> v]],
                   out   |-> "none"] :
                  h \in MatchHeaderChoices, s \in MatchHeaderChoices,
                  v \in MatchVaryChoices }
    /\ Idle

\* lines 37-53: the matcher runs on the entry
MatchCall ==
    /\ call.out = "none"
    /\ call' = [call EXCEPT !.out =
                   IF matchesRequestPanics(call.entry) THEN "panic"
                   ELSE IF matchesRequest(call.r, call.entry) THEN "true"
                   ELSE "false"]
    /\ UNCHANGED <<StatusHeader, req, pc, rt, pt, store, lock, previous, path,
                   headers, policy, newEntry, endChannel, returnedStatusCode,
                   ret, w, produced, bodyClosed, content, sink, reader,
                   handled, invoked>>

NextMatch == MatchCall

SpecMatch == InitMatch /\ [][NextMatch]_vars

(***************************************************************************)
(* Definitions the properties share.                                       *)
(***************************************************************************)
IsPublic(e) == IF e = NoEntry THEN FALSE ELSE e.isPublic

IsPrefix(a, b) == Len(a) <= Len(b) /\ SubSeq(b, 1, Len(a)) = a

AllDone == \A r \in Reqs : pc[r] = "done"

\* every request is eligible and all have one key
AllShareKey ==
    \A r, q \in Reqs : shouldUseCache(req[r]) /\ getKey(req[r]) = getKey(req[q])

\* r is on the miss path, past a policy that said cacheable and a NewContent
\* that gave a sink
CacheableMiss(r) ==
    /\ path[r] = "miss"
    /\ policy[r] # NoPolicy
    /\ policy[r].err = NoError
    /\ policy[r].isCacheable
    /\ newEntry[r] # NoEntry

\* r is on the miss path, past a policy that said not cacheable
NonCacheableMiss(r) ==
    /\ path[r] = "miss"
    /\ policy[r] # NoPolicy
    /\ newEntry[r] # NoEntry
    /\ ~policy[r].isCacheable

(***************************************************************************)
(* C1. The hit path runs only for a public previous entry; on no previous  *)
(* entry or a private one the miss path runs (the downstream responder is  *)
(* started) and nothing of the private entry reaches the client.           *)
(***************************************************************************)
C1_PrivateNeverHit ==
    \A r \in Reqs :
        /\ path[r] = "hit" => IsPublic(previous[r])
        /\ (path[r] \in {"hit", "miss"} /\ ~IsPublic(previous[r])) =>
              /\ path[r] = "miss"
              /\ rt[r] # "none"
              /\ reader[r] = NoReader

C1_Witness ==
    \E r \in Reqs :
        /\ path[r] = "miss"
        /\ previous[r] # NoEntry
        /\ ~IsPublic(previous[r])
        /\ pc[r] = "done"

C3_PersistedBeforeReturn ==
    \A r \in Reqs :
        (pc[r] = "done" /\ CacheableMiss(r)) =>
            /\ pt[r] = "done"
            /\ sink[r].closes = 1
            /\ sink[r].data = produced[r]

C5_SinkIsBody ==
    \A r \in Reqs :
        CacheableMiss(r) =>
            /\ IsPrefix(sink[r].data, produced[r])
            /\ pt[r] = "write" => IsPrefix(Append(sink[r].data, content[r]),
                                           produced[r])
            /\ sink[r].closes <= 1
            /\ sink[r].lateWrites = 0
            /\ sink[r].closes = 1 =>
                  /\ bodyClosed[r]
                  /\ sink[r].data = produced[r]
            /\ pt[r] = "done" <=> sink[r].closes = 1

C5_Witness ==
    \E r \in Reqs :
        /\ CacheableMiss(r)
        /\ sink[r].closes = 1
        /\ Len(sink[r].data) = MaxChunks

(***************************************************************************)
(* C6. The entry the miss path returns to the store is public, with the    *)
(* expiration the policy returned and the new sink as its body, exactly    *)
(* when the policy said cacheable; otherwise it is private, without a body *)
(* and with the default expiration. Its status code is that of the header  *)
(* event and its header map is the map the header event carried (the one   *)
(* map, from which lines 121 and 143 delete the configured status header): *)
(* every other header has the values the responder committed.              *)
(***************************************************************************)
C6_ReturnedEntry ==
    \A r \in Reqs :
        (path[r] = "miss" /\ newEntry[r] # NoEntry) =>
            LET e == newEntry[r]
            IN  /\ e.isPublic <=> policy[r].isCacheable
                /\ e.isPublic =>
                      /\ e.Expiration = policy[r].expirationTime
                      /\ e.Response.Body = r
                /\ ~e.isPublic =>
                      /\ e.Expiration = DefaultExpiration
                      /\ e.Response.Body = NoBody
                /\ e.Response.Code = headers[r].StatusCode
                /\ e.Response.Code = w[r].Code
                /\ e.Response.HeaderMap = headers[r].Header
                /\ \A k \in (DOMAIN w[r].Header) \ {StatusHeader} :
                      HeaderIndex(e.Response.HeaderMap, k)
                        = HeaderIndex(w[r].Header, k)
                /\ DOMAIN e.Response.HeaderMap \subseteq DOMAIN w[r].Header

C6_Witness ==
    /\ StatusHeader = "X-Cache-Status"
    /\ \E r, q \in Reqs :
        /\ newEntry[r] # NoEntry /\ newEntry[r].isPublic
        /\ newEntry[q] # NoEntry /\ ~newEntry[q].isPublic

(***************************************************************************)
(* C7, as stated. On a miss that is not cacheable the callback hands the   *)
(* store no replacement entry.                                             *)
(***************************************************************************)
C7_Original ==
    \A r \in Reqs : NonCacheableMiss(r) => newEntry[r] = NoEntry

(***************************************************************************)
(* C7, amended. On a miss that is not cacheable no body is stored: no sink *)
(* is opened, and the callback hands the store a private entry without a   *)
(* body, which takes the place of the private entry the store gave the     *)
(* callback, if any; the public entries of the store are left as they      *)
(* were.                                                                   *)
(***************************************************************************)
PublicEntries(st) == [k \in Keys |-> { e \in st[k] : e.isPublic }]

C7_NoBodyStored ==
    [][\A r \in Reqs :
          (pc[r] = "policy" /\ NonCacheableMiss(r)') =>
             /\ ~newEntry'[r].isPublic
             /\ newEntry'[r].Response.Body = NoBody
             /\ sink' = sink
             /\ sink[r].opened = 0
             /\ PublicEntries(store') = PublicEntries(store)
             /\ store' = [store EXCEPT ![getKey(req[r])] =
                             (@ \ {previous[r]}) \cup {newEntry'[r]}]]_vars

C7_Witness ==
    \E r \in Reqs :
        /\ NonCacheableMiss(r)
        /\ pc[r] = "done"
        /\ newEntry[r] \in store[getKey(req[r])]

(***************************************************************************)
(* C8. NewContent is called for a request at most once, and only on the    *)
(* miss path of an eligible request, after the header event and a policy   *)
(* result that is cacheable without an error.                              *)
(***************************************************************************)
C8_SinkOnlyWhenCacheable ==
    \A r \in Reqs :
        /\ sink[r].opened <= 1
        /\ sink[r].opened = 1 =>
              /\ shouldUseCache(req[r])
              /\ path[r] = "miss"
              /\ headers[r] # NoHeaders
              /\ policy[r] # NoPolicy
              /\ policy[r].isCacheable
              /\ policy[r].err = NoError
        /\ sink[r].opened = 0 =>
              /\ sink[r].data = <<>>
              /\ sink[r].closes = 0

C8_Witness ==
    \E r, q \in Reqs :
        /\ sink[r].opened = 1
        /\ pc[q] = "done"
        /\ path[q] = "miss"
        /\ sink[q].opened = 0

(***************************************************************************)
(* C9, as stated. After a hit the client has the stored status code, every *)
(* stored header with its stored values, the whole stored body and, when a *)
(* status header is configured, that header with the one value "hit";      *)
(* ServeHTTP returns the stored status code and no error.                  *)
(***************************************************************************)
C9_HitReplaysEntry ==
    \A r \in Reqs :
        path[r] = "hit" =>
            LET e == previous[r].Response
            IN  /\ w[r].Code = e.Code
                /\ \A k \in DOMAIN e.HeaderMap :
                      HeaderIndex(w[r].Header, k) = <<e.HeaderMap[k]>>
                /\ e.Body # NoBody => w[r].Body = sink[e.Body].data
                /\ StatusHeader # "" =>
                      HeaderIndex(w[r].Header, CanonicalHeaderKey(StatusHeader))
                        = << <<"hit">> >>
                /\ ret[r] = [code |-> e.Code, err |-> NoError]

(***************************************************************************)
(* C10. A callback that is given a public previous entry returns no entry, *)
(* the store is left as it was, no responder, drain or pump is started for *)
(* the request, and ServeHTTP returns without a wait on endChannel.        *)
(***************************************************************************)
C10_HitLeavesStore ==
    [][\A r \in Reqs :
          (pc[r] = "start" /\ IsPublic(previous'[r])) =>
             /\ path'[r] = "hit"
             /\ newEntry'[r] = NoEntry
             /\ store' = store
             /\ lock' = lock
             /\ sink' = sink
             /\ rt'[r] = "none"
             /\ pt'[r] = "none"
             /\ produced'[r] = <<>>
             /\ ~endChannel'[r]
             /\ pc'[r] = "done"]_vars

C10_Witness ==
    \E r \in Reqs :
        /\ path[r] = "hit"
        /\ pc[r] = "done"
        /\ previous[r] \in store[getKey(req[r])]

(***************************************************************************)
(* C11. A request that shouldUseCache rejects runs no caching logic: the   *)
(* step that serves it leaves the store, the key locks and every sink as   *)
(* they were, gives the callback no entry and starts no goroutine; the     *)
(* response carries the status header "skip" when one is configured, the   *)
(* downstream responder is called exactly once and writes to the client    *)
(* itself, and ServeHTTP returns the status code and the error that the    *)
(* downstream responder returned.                                          *)
(***************************************************************************)
C11_SkipBypassesCache ==
    /\ [](\A r \in Reqs :
            ~shouldUseCache(req[r]) =>
               /\ path[r] \in {"none", "skip"}
               /\ sink[r].opened = 0
               /\ lock[getKey(req[r])] # r
               /\ invoked[r] <= 1)
    /\ [][\A r \in Reqs :
            (pc[r] = "start" /\ ~shouldUseCache(req[r]) /\ pc'[r] # "start") =>
               /\ path'[r] = "skip"
               /\ store' = store
               /\ lock' = lock
               /\ sink' = sink
               /\ previous'[r] = NoEntry
               /\ newEntry'[r] = NoEntry
               /\ rt'[r] = "none"
               /\ pt'[r] = "none"
               /\ ~endChannel'[r]
               /\ invoked'[r] = 1
               /\ w'[r].Body = produced'[r]
               /\ StatusHeader # "" =>
                     HeaderIndex(w'[r].Header, CanonicalHeaderKey(StatusHeader))
                       = << <<"skip">> >>
               /\ handled'[r] # NoReturn
               /\ ret'[r] = handled'[r]
               /\ pc'[r] = "done"]_vars

C11_Witness ==
    \E r, q \in Reqs :
        /\ path[r] = "skip"
        /\ pc[r] = "done"
        /\ StatusHeader # ""
        /\ ret[r].err # NoError
        /\ store[getKey(req[q])] # {}

(***************************************************************************)
(* C12, as stated. Whatever status header is configured, no entry that a   *)
(* miss returns to the store, and so no entry of the store, has the status *)
(* header in its stored header map, although "miss" was set on the         *)
(* response before the header event; a later hit then sends the status     *)
(* header with the one value "hit".                                        *)
(***************************************************************************)
C12_NoStatusHeaderStored ==
    StatusHeader # "" =>
        LET name == CanonicalHeaderKey(StatusHeader)
        IN  /\ \A r \in Reqs :
                  /\ newEntry[r] # NoEntry =>
                        HeaderIndex(newEntry[r].Response.HeaderMap, name) = <<>>
                  /\ path[r] = "hit" =>
                        HeaderIndex(w[r].Header, name) = << <<"hit">> >>
            /\ \A k \in Keys :
                  \A e \in store[k] :
                      HeaderIndex(e.Response.HeaderMap, name) = <<>>

(***************************************************************************)
(* C13. When getCacheableStatus gives an error, or NewContent does, the    *)
(* miss path is given up: the callback returns no entry and the error, the *)
(* store holds what it held before the attempt, the key is free again,     *)
(* nothing is tried a second time (one downstream call, at most one        *)
(* NewContent call, no drain or pump), and ServeHTTP returns that error    *)
(* with the status code 500, without a wait on endChannel.                 *)
(***************************************************************************)
MissFailed(r) ==
    /\ policy[r] # NoPolicy
    /\ (policy[r].err # NoError \/ sink[r].err # NoError)

MissError(r) ==
    IF policy[r].err # NoError THEN policy[r].err ELSE sink[r].err

C13_ErrorAbortsMiss ==
    /\ [](\A r \in Reqs :
            MissFailed(r) =>
               /\ newEntry[r] = NoEntry
               /\ ret[r] = [code |-> StatusInternalServerError,
                            err  |-> MissError(r)]
               /\ pc[r] = "done"
               /\ ~endChannel[r]
               /\ invoked[r] = 1
               /\ sink[r].opened <= 1
               /\ sink[r].data = <<>>
               /\ pt[r] = "none"
               /\ lock[getKey(req[r])] # r)
    /\ [][\A r \in Reqs :
            (pc[r] = "policy" /\ MissFailed(r)') => store' = store]_vars

C13_Witness ==
    \E r, q \in Reqs :
        /\ MissFailed(r)
        /\ policy[r].err # NoError
        /\ MissFailed(q)
        /\ sink[q].err # NoError
        /\ pc[r] = "done"
        /\ pc[q] = "done"

(***************************************************************************)
(* C14, as stated. The matcher gives true for an entry whose stored        *)
(* response has no Vary header; otherwise it gives true exactly when, for  *)
(* every header name listed in the stored response's Vary header (split on *)
(* commas, white space trimmed), the stored request and the current        *)
(* request have the same list of values (same length, values and order;    *)
(* absent on both sides is equal, present on one side only is not). It     *)
(* never fails and changes neither the entry nor the request.              *)
(***************************************************************************)
\* the names that the values of a Vary header list
RECURSIVE VaryNames(_)
VaryNames(values) ==
    IF values = <<>> THEN {}
    ELSE LET names == Split(Head(values))
         IN  { TrimSpace(names[i]) : i \in 1..Len(names) }
               \cup VaryNames(Tail(values))

C14_Expected(r, entry) ==
    LET vary == HeaderIndex(entry.Response.HeaderMap, "Vary")
    IN  IF vary = <<>> THEN "true"
        ELSE IF \A name \in VaryNames(vary[1]) :
                    HeaderIndex(entry.Request.HeaderMap, name)
                      = HeaderIndex(r.Header, name)
             THEN "true"
             ELSE "false"

C14_MatchesOnVary ==
    /\ [](call.out # "none" => call.out = C14_Expected(call.r, call.entry))
    /\ [][call'.r = call.r /\ call'.entry = call.entry]_vars

(***************************************************************************)
(* C15. getKey depends on the method, the host, the path and the encoded   *)
(* query of the request and on nothing else: two requests that agree on    *)
(* these four get the same key whatever their headers are, and so a change *)
(* of the headers alone never changes the key.                             *)
(***************************************************************************)
SameKeyInputs(r, q) ==
    /\ r.Method = q.Method
    /\ r.Host = q.Host
    /\ r.Path = q.Path
    /\ QueryEncode(r.Query) = QueryEncode(q.Query)

C15_KeyIgnoresHeaders ==
    (call.out # <<>> /\ SameKeyInputs(call.r, call.q)) =>
        call.out[1] = call.out[2]

C15_Witness ==
    /\ call.out # <<>>
    /\ SameKeyInputs(call.r, call.q)
    /\ call.r.Header # call.q.Header
    /\ call.r.Query # call.q.Query
    /\ call.out[1] = call.out[2]

(***************************************************************************)
(* C16. On every miss the header event is sent once, and before the        *)
(* responder writes its first body chunk; the drain or pump gets the       *)
(* chunks in the order the responder wrote them; the body channel is       *)
(* closed when pipe.handle() has returned; and the send on endChannel      *)
(* happens only after pipe.handle() has returned.                          *)
(***************************************************************************)
C16_SplitterOrder ==
    /\ [](\A r \in Reqs :
            path[r] = "miss" =>
               /\ (rt[r] = "handle") = (headers[r] = NoHeaders)
               /\ produced[r] # <<>> => headers[r] # NoHeaders
               /\ IsPrefix(sink[r].data, produced[r])
               /\ pt[r] = "write" =>
                     content[r] = produced[r][Len(sink[r].data) + 1]
               /\ rt[r] \in {"end", "done"} =>
                     (bodyClosed[r] /\ handled[r] # NoReturn)
               /\ bodyClosed[r] => rt[r] \in {"end", "done"})
    /\ [][\A r \in Reqs :
            /\ headers[r] # NoHeaders =>
                  /\ headers'[r] # NoHeaders
                  /\ headers'[r].StatusCode = headers[r].StatusCode
            /\ (headers[r] = NoHeaders /\ headers'[r] # NoHeaders) =>
                  (produced[r] = <<>> /\ produced'[r] = <<>>)
            /\ IsPrefix(produced[r], produced'[r])
            /\ (rt[r] # "done" /\ rt'[r] = "done") =>
                  (rt[r] = "end" /\ handled[r] # NoReturn /\ bodyClosed[r])]_vars

C16_Witness ==
    \E r \in Reqs :
        /\ path[r] = "miss"
        /\ rt[r] = "done"
        /\ pt[r] = "done"
        /\ Len(produced[r]) = MaxChunks
        /\ sink[r].data = produced[r]

(***************************************************************************)
(* C17, as stated. On every miss, also when getCacheableStatus or          *)
(* NewContent fails after the downstream responder was started, every      *)
(* goroutine that was started ends: once ServeHTTP has returned, the       *)
(* responder goroutine and the drain or pump goroutine are either finished *)
(* or still able to take a step; none is blocked for good on the body      *)
(* channel or on the send on endChannel.                                   *)
(***************************************************************************)
\* a step of a goroutine that was started for r
TaskStep(r) ==
    \/ RespWrite(r)
    \/ RespReturn(r)
    \/ EndReceive(r)
    \/ DrainReceive(r)
    \/ DrainEnd(r)
    \/ PumpReceive(r)
    \/ PumpWrite(r)
    \/ PumpClose(r)

C17_TasksTerminate ==
    \A r \in Reqs :
        (pc[r] = "done" /\ ~ENABLED TaskStep(r)) =>
            /\ rt[r] \in {"none", "done"}
            /\ pt[r] \in {"none", "done"}

(***************************************************************************)
(* C18. Under a fair scheduler, with a downstream responder that always    *)
(* returns and a store that runs the callback, every eligible request      *)
(* returns from ServeHTTP: it waits only for the header event and for      *)
(* endChannel, and both come, whether the responder writes body chunks or  *)
(* none, and whether it ends with an error or without.                     *)
(***************************************************************************)
C18_EligibleReturns ==
    \A r \in Reqs : shouldUseCache(req[r]) ~> (pc[r] = "done")

C18_Witness ==
    \E r \in Reqs :
        /\ shouldUseCache(req[r])
        /\ path[r] = "miss"
        /\ pc[r] = "done"
        /\ produced[r] = <<>>
        /\ handled[r] # NoReturn
        /\ handled[r].err # NoError
        /\ ret[r].err = NoError

(***************************************************************************)
(* C19. When the downstream responder ends with an error after the header  *)
(* event of a cacheable miss, no error is reported: the body channel is    *)
(* closed, the pump is not blocked and closes the sink once, with exactly  *)
(* the chunks the responder wrote; the entry given to the store stays      *)
(* public and in the store; and ServeHTTP returns the status code of the   *)
(* header event and no error.                                              *)
(***************************************************************************)
\* r is a cacheable miss whose downstream responder has ended with an error
FailedCacheableMiss(r) ==
    /\ CacheableMiss(r)
    /\ handled[r] # NoReturn
    /\ handled[r].err # NoError

C19_DownstreamErrorSwallowed ==
    \A r \in Reqs :
        FailedCacheableMiss(r) =>
            /\ bodyClosed[r]
            /\ IsPublic(newEntry[r])
            /\ newEntry[r] \in store[getKey(req[r])]
            /\ IsPrefix(sink[r].data, produced[r])
            /\ pt[r] # "done" =>
                  (sink[r].closes = 0 /\ ENABLED BodyReceiver(r))
            /\ pt[r] = "done" =>
                  (sink[r].closes = 1 /\ sink[r].data = produced[r])
            /\ pc[r] # "done" => ENABLED EndReceive(r)
            /\ pc[r] = "done" =>
                  ret[r] = [code |-> headers[r].StatusCode, err |-> NoError]

C19_Witness ==
    \E r \in Reqs :
        /\ FailedCacheableMiss(r)
        /\ pc[r] = "done"
        /\ pt[r] = "done"
        /\ produced[r] # <<>>
        /\ Len(produced[r]) < MaxChunks

(***************************************************************************)
(* C20. A request that takes the miss path and meets no error of           *)
(* getCacheableStatus or of NewContent, cacheable or not, returns from     *)
(* ServeHTTP only after the downstream responder has returned: the return  *)
(* is the receive from endChannel of what the responder goroutine sends    *)
(* after pipe.handle(), and the status code returned is the one of the     *)
(* header event.                                                           *)
(***************************************************************************)
C20_ReturnAfterDownstream ==
    /\ [](\A r \in Reqs :
            (path[r] = "miss" /\ pc[r] = "done" /\ ~MissFailed(r)) =>
               /\ endChannel[r]
               /\ rt[r] = "done"
               /\ handled[r] # NoReturn
               /\ bodyClosed[r]
               /\ ret[r] = [code |-> headers[r].StatusCode, err |-> NoError])
    /\ [][\A r \in Reqs :
            (path[r] = "miss" /\ pc[r] # "done" /\ pc'[r] = "done"
               /\ ~MissFailed(r)') =>
                  /\ pc[r] = "waitEnd"
                  /\ rt[r] = "end"
                  /\ rt'[r] = "done"
                  /\ handled[r] # NoReturn]_vars

C20_Witness ==
    \E r, q \in Reqs :
        /\ CacheableMiss(r)
        /\ NonCacheableMiss(q)
        /\ pc[r] = "done"
        /\ pc[q] = "done"
        /\ ret[r].code = headers[r].StatusCode
        /\ ret[q].code = headers[q].StatusCode

====
